---- MODULE Spec2Model ----
(***************************************************************************)
(* Model of NetworkAnalyzerApp (src/downloadable/network_analyzer.py):     *)
(* the packet ingestion path (packet_callback -> Tk "after" queue ->       *)
(* _process_packet), the conversation store, the communication graph, the  *)
(* packet table, conversation selection, clear, pcap replay and the        *)
(* capture-thread lifecycle (start_sniffing / _sniffer_worker /            *)
(* stop_sniffing).                                                         *)
(*                                                                         *)
(* Threads.  Every Tk handler (button commands and "after" callbacks) runs *)
(* on the foreground thread, one at a time.  Each capture thread runs      *)
(* scapy's sniff loop: for a received packet it calls prn                  *)
(* (packet_callback) and then evaluates stop_filter.  packet_callback      *)
(* touches the graph and then posts _process_packet with self.after, so a  *)
(* capture thread is modelled with one step per shared-state access.       *)
(***************************************************************************)
EXTENDS Integers, Sequences, FiniteSets, TLC

\* ---------------------------------------------------------------- bounds
\* Total number of IP packets handed to packet_callback in one behaviour.
MaxPackets == 2
\* Number of capture threads that can be alive at the same time.
MaxWorkers == 2

\* ------------------------------------------------------------ input sets
\* Addresses are strings in the program; tuple(sorted(..)) orders them
\* lexicographically.  Address n stands for the n-th address in that order.
Addresses == {1, 2, 3}

\* The kinds of packet a source can yield: IP packets between two addresses
\* (both directions of one pair, and a second pair) and a packet without an
\* IP layer.
NonIP == [ip |-> FALSE, src |-> 0, dst |-> 0]
IPKind(s, d) == [ip |-> TRUE, src |-> s, dst |-> d]
PacketKinds == {IPKind(1, 2), IPKind(2, 1), IPKind(1, 3), NonIP}

\* A packet object: a kind plus its identity.  The identity of an IP packet
\* is its position in the order in which IP packets were handed to
\* packet_callback; packets without an IP layer are dropped there and need
\* none.
Pkt(n, k) == [id |-> n, ip |-> k.ip, src |-> k.src, dst |-> k.dst]

\* self.selected_conversation = None
None == <<>>

VARIABLES
    packets,            \* self.packets: the master list
    conversations,      \* self.conversations: key -> [count, packets]
    selected_conversation,
    graph,              \* self.graph: [nodes, edges], edges as sets {a,b}
    is_sniffing,
    start_button,       \* widget states set by configure(state=...)
    stop_button,
    upload_button,
    conv_buttons,       \* keys that have a button in conv_scroll_frame
    packet_tree,        \* rows of the Treeview: [no, pkt]
    after_queue,        \* pending self.after(0, _process_packet, p) calls
    sniffing,           \* number of capture threads waiting in sniff()
    posting,            \* packets held by capture threads inside
                        \*   packet_callback, after add_edge, before after()
    filtering,          \* number of capture threads about to run stop_filter
    uploading,          \* the foreground is inside upload_pcap's loop
    nextId,             \* identity of the next IP packet handed over
    handed,             \* history: IP packets handed to packet_callback
                        \*   since the last clear_data
    fromEmpty,          \* history: the last clear_data (or construction)
                        \*   left nothing pending, and no start_sniffing has
                        \*   dropped edges since
    dropped,            \* history: a packet without an IP layer has been
                        \*   handed to packet_callback
    fetching,           \* ip argument of the running _fetch_ip_info thread
    ip_textbox,         \* content of the textbox the lookup writes to
    requested           \* address of the requests.get call of the last
                        \*   lookup, None when it made none

vars == <<packets, conversations, selected_conversation, graph, is_sniffing,
          start_button, stop_button, upload_button, conv_buttons,
          packet_tree, after_queue, sniffing, posting, filtering, uploading,
          nextId, handed, fromEmpty, dropped, fetching, ip_textbox,
          requested>>

dataVars == <<packets, conversations, selected_conversation, graph,
              conv_buttons, packet_tree>>
sessionVars == <<is_sniffing, start_button, stop_button, upload_button>>
workerVars == <<sniffing, posting, filtering>>
historyVars == <<nextId, handed, fromEmpty, dropped>>
lookupVars == <<fetching, ip_textbox, requested>>

\* ------------------------------------------------------ pure definitions
EmptyGraph == [nodes |-> {}, edges |-> {}]

\* nx.Graph.add_edge(src, dst): adds both nodes and the undirected edge;
\* adding an existing edge changes nothing.
AddEdge(g, src, dst) ==
    [nodes |-> g.nodes \cup {src, dst}, edges |-> g.edges \cup {{src, dst}}]

\* nx.Graph.degree of a node (a self-loop counts twice).
Degree(g, a) ==
    Cardinality({e \in g.edges : a \in e /\ e # {a}})
      + (IF {a} \in g.edges THEN 2 ELSE 0)

\* Variant: the key built without sorting its two addresses.
ConversationKeyUnsorted(src, dst) == <<src, dst>>

\* tuple(sorted((src, dst)))
ConversationKey(src, dst) == IF src <= dst THEN <<src, dst>> ELSE <<dst, src>>

\* the conversation map with no entries
EmptyStore == <<>>

\* defaultdict(lambda: {"count": 0, "packets": []})
DefaultConversation == [count |-> 0, packets |-> <<>>]
ConvGet(c, k) == IF k \in DOMAIN c THEN c[k] ELSE DefaultConversation

\* self.conversations[k] : indexing a missing key inserts the default
ConvTouch(c, k) ==
    [x \in DOMAIN c \cup {k} |-> IF x \in DOMAIN c THEN c[x] ELSE DefaultConversation]

\* Variant: the increment of count is lost.
ConvCountLost(n) == n

\* conversations[key]["count"] += 1
ConvCount(n) == n + 1

\* conversations[key]["count"] += 1 ; conversations[key]["packets"].append(p)
ConvRecord(c, k, p) ==
    [x \in DOMAIN c \cup {k} |->
        IF x = k
          THEN [count |-> ConvCount(ConvGet(c, k).count),
                packets |-> Append(ConvGet(c, k).packets, p)]
          ELSE c[x]]

\* add_packet_to_tree: the "No." column is len(self.packets) at the time
\* the row is inserted.
TreeRow(log, p) == [no |-> Len(log), pkt |-> p]
AddPacketToTree(tree, log, p) == Append(tree, TreeRow(log, p))

\* the rows select_conversation inserts for a conversation's packets
RECURSIVE TreeOf(_, _)
TreeOf(ps, log) ==
    IF ps = <<>> THEN <<>>
    ELSE AddPacketToTree(<<>>, log, Head(ps)) \o TreeOf(Tail(ps), log)

\* Variant: every accepted packet is pushed to the view.
DisplayedAlways(sel, key) == TRUE

\* The condition under which _process_packet pushes the packet to the view.
Displayed(sel, key) == sel = None \/ sel = key

Init ==
    /\ packets = <<>>
    /\ conversations = EmptyStore
    /\ selected_conversation = None
    /\ graph = EmptyGraph
    /\ is_sniffing = FALSE
    /\ start_button = "normal"
    /\ stop_button = "disabled"
    /\ upload_button = "normal"
    /\ conv_buttons = {}
    /\ packet_tree = <<>>
    /\ after_queue = <<>>
    /\ sniffing = 0
    /\ posting = {}
    /\ filtering = 0
    /\ uploading = FALSE
    /\ nextId = 1
    /\ handed = {}
    /\ fromEmpty = TRUE
    /\ dropped = FALSE
    /\ fetching = None
    /\ ip_textbox = None
    /\ requested = None

\* ------------------------------------------------------- packet_callback
\* packet_callback, first effect: self.graph.add_edge(src, dst) for a packet
\* with an IP layer; nothing for any other packet.
CallbackGraph(g, p) == IF p.ip THEN AddEdge(g, p.src, p.dst) ELSE g

\* Variant: the call is posted without looking for the IP layer.
CallbackQueueAll(q, p) == Append(q, p)

\* packet_callback, second effect: self.after(0, self._process_packet, p)
\* appends one pending call to Tk's queue, which runs calls in the order
\* they were posted.
CallbackQueue(q, p) == IF p.ip THEN Append(q, p) ELSE q

\* ------------------------------------------------------- _process_packet
ProcessStore(c, p) ==
    IF ~p.ip THEN c ELSE ConvRecord(c, ConversationKey(p.src, p.dst), p)

\* Variant: _process_packet without self.packets.append(packet).
ProcessLogSkipped(log, p) == log

ProcessLog(log, p) == IF ~p.ip THEN log ELSE Append(log, p)

ProcessTree(tree, log, sel, p) ==
    IF ~p.ip THEN tree
    ELSE IF Displayed(sel, ConversationKey(p.src, p.dst))
           THEN AddPacketToTree(tree, ProcessLog(log, p), p)
           ELSE tree

\* update_conversations_list: one button per key of self.conversations
ConversationButtons(c) == DOMAIN c

\* The foreground runs the oldest pending _process_packet call.
ProcessQueued ==
    /\ ~uploading
    /\ after_queue # <<>>
    /\ LET p == Head(after_queue) IN
         /\ conversations' = ProcessStore(conversations, p)
         /\ packets' = ProcessLog(packets, p)
         /\ packet_tree' = ProcessTree(packet_tree, packets, selected_conversation, p)
         /\ conv_buttons' = ConversationButtons(conversations')
    /\ after_queue' = Tail(after_queue)
    /\ UNCHANGED lookupVars
    /\ UNCHANGED <<selected_conversation, graph, sessionVars, workerVars,
                   uploading, historyVars>>

\* ---------------------------------------------------- select_conversation
SelectStore(c, k) == ConvTouch(c, k)
SelectTree(c, log, k) == TreeOf(ConvGet(c, k).packets, log)

\* A click on the button of conversation k.
SelectConversation(k) ==
    /\ ~uploading
    /\ k \in conv_buttons
    /\ selected_conversation' = k
    /\ conversations' = SelectStore(conversations, k)
    /\ packet_tree' = SelectTree(conversations, packets, k)
    /\ UNCHANGED lookupVars
    /\ UNCHANGED <<packets, graph, conv_buttons, after_queue, sessionVars,
                   workerVars, uploading, historyVars>>

\* ------------------------------------------------------------ clear_data
\* Nothing is pending when the Tk queue is empty and no capture thread is
\* between its add_edge and its self.after.
NothingPending == after_queue = <<>> /\ posting = {}

\* Variant: clear_data without self.graph.clear().
ClearedGraphKept == graph

ClearedLog == <<>>
ClearedStore == EmptyStore
ClearedGraph == EmptyGraph
ClearedTree == <<>>

\* The assignments of clear_data (shared with upload_pcap, which calls it).
ClearDataEffect ==
    /\ packets' = ClearedLog
    /\ conversations' = ClearedStore
    /\ selected_conversation' = None
    /\ graph' = ClearedGraph
    /\ packet_tree' = ClearedTree
    /\ conv_buttons' = ConversationButtons(conversations')
    /\ handed' = {}
    /\ fromEmpty' = NothingPending

ClearData ==
    /\ ~uploading
    /\ ClearDataEffect
    /\ UNCHANGED lookupVars
    /\ UNCHANGED <<after_queue, sessionVars, workerVars, uploading, nextId, dropped>>

\* ------------------------------------------------- start / stop sniffing
\* the capture threads that have not returned from sniff()
AliveWorkers == sniffing + Cardinality(posting) + filtering

\* self.graph.clear() in start_sniffing
StartGraph(g) == EmptyGraph

\* threading.Thread(target=self._sniffer_worker).start()
StartThread(n) == n + 1

StartSniffing ==
    /\ ~uploading
    /\ start_button = "normal"
    /\ AliveWorkers < MaxWorkers
    /\ is_sniffing' = TRUE
    /\ start_button' = "disabled"
    /\ stop_button' = "normal"
    /\ upload_button' = "disabled"
    /\ graph' = StartGraph(graph)
    /\ sniffing' = StartThread(sniffing)
    /\ fromEmpty' = (fromEmpty /\ graph = EmptyGraph)
    /\ UNCHANGED lookupVars
    /\ UNCHANGED <<packets, conversations, selected_conversation, conv_buttons,
                   packet_tree, after_queue, posting, filtering, uploading,
                   nextId, handed, dropped>>

\* stop_sniffing: the join waits at most one second and its outcome is not
\* looked at, so the thread may still be alive when stop_sniffing returns.
\* The session as stop_sniffing finds it.
Session ==
    [is_sniffing |-> is_sniffing, start_button |-> start_button,
     stop_button |-> stop_button, upload_button |-> upload_button]

\* Variant: stop_sniffing flips the flag instead of clearing it.
StopSessionToggled(s) ==
    [is_sniffing |-> ~s.is_sniffing, start_button |-> "normal",
     stop_button |-> "disabled", upload_button |-> "normal"]

\* The assignments of stop_sniffing to the flag and the three buttons.
StopSession(s) ==
    [is_sniffing |-> FALSE, start_button |-> "normal",
     stop_button |-> "disabled", upload_button |-> "normal"]

\* What stop_sniffing hands back to its caller: it has no return statement
\* and raises nothing, whether the joined thread is still alive or not.
StopReturn(alive) == None

StopSniffing ==
    /\ ~uploading
    /\ stop_button = "normal"
    /\ is_sniffing' = StopSession(Session).is_sniffing
    /\ start_button' = StopSession(Session).start_button
    /\ stop_button' = StopSession(Session).stop_button
    /\ upload_button' = StopSession(Session).upload_button
    /\ UNCHANGED lookupVars
    /\ UNCHANGED <<dataVars, after_queue, workerVars, uploading, historyVars>>

\* ------------------------------------------------------- _sniffer_worker
\* sniff() receives a packet of kind k and calls prn = packet_callback,
\* which first adds the edge.
WorkerCapture(k) ==
    /\ sniffing > 0
    /\ k.ip => nextId <= MaxPackets
    /\ LET p == Pkt(nextId, k) IN
         /\ graph' = CallbackGraph(graph, p)
         /\ posting' = IF p.ip THEN posting \cup {p} ELSE posting
         /\ filtering' = IF p.ip THEN filtering ELSE filtering + 1
         /\ handed' = IF p.ip THEN handed \cup {p} ELSE handed
    /\ sniffing' = sniffing - 1
    /\ nextId' = IF k.ip THEN nextId + 1 ELSE nextId
    /\ dropped' = (dropped \/ ~k.ip)
    /\ UNCHANGED lookupVars
    /\ UNCHANGED <<packets, conversations, selected_conversation, conv_buttons,
                   packet_tree, after_queue, sessionVars, uploading, fromEmpty>>

\* packet_callback posts the _process_packet call for the packet it holds.
WorkerAfter(p) ==
    /\ p \in posting
    /\ after_queue' = CallbackQueue(after_queue, p)
    /\ posting' = posting \ {p}
    /\ filtering' = filtering + 1
    /\ UNCHANGED lookupVars
    /\ UNCHANGED <<dataVars, sessionVars, sniffing, uploading, historyVars>>

\* stop_filter = lambda p: not self.is_sniffing, evaluated after prn: the
\* thread leaves sniff() when it is true and waits for a packet otherwise.
StopFilter(flag) == ~flag

WorkerStopFilter ==
    /\ filtering > 0
    /\ filtering' = filtering - 1
    /\ sniffing' = IF StopFilter(is_sniffing) THEN sniffing ELSE sniffing + 1
    /\ UNCHANGED lookupVars
    /\ UNCHANGED <<dataVars, sessionVars, after_queue, posting, uploading,
                   historyVars>>

\* sniff() raises (no such interface, no permission): the thread ends.
WorkerRaise ==
    /\ sniffing > 0
    /\ sniffing' = sniffing - 1
    /\ UNCHANGED lookupVars
    /\ UNCHANGED <<dataVars, sessionVars, after_queue, posting, filtering,
                   uploading, historyVars>>

\* ----------------------------------------------------------- upload_pcap
\* upload_pcap up to the loop: clear_data(), then rdpcap(filepath).
UploadPcap ==
    /\ ~uploading
    /\ upload_button = "normal"
    /\ ClearDataEffect
    /\ uploading' = TRUE
    /\ UNCHANGED lookupVars
    /\ UNCHANGED <<after_queue, sessionVars, workerVars, nextId, dropped>>

\* One iteration of "for packet in packets: self.packet_callback(packet)";
\* k is the kind of the next packet of the file.
ReplayStep(k) ==
    /\ uploading
    /\ k.ip => nextId <= MaxPackets
    /\ LET p == Pkt(nextId, k) IN
         /\ graph' = CallbackGraph(graph, p)
         /\ after_queue' = CallbackQueue(after_queue, p)
         /\ handed' = IF p.ip THEN handed \cup {p} ELSE handed
    /\ nextId' = IF k.ip THEN nextId + 1 ELSE nextId
    /\ dropped' = (dropped \/ ~k.ip)
    /\ UNCHANGED lookupVars
    /\ UNCHANGED <<packets, conversations, selected_conversation, conv_buttons,
                   packet_tree, sessionVars, workerVars, uploading, fromEmpty>>

\* The file is exhausted (or rdpcap raised): update_network_map, return.
ReplayDone ==
    /\ uploading
    /\ uploading' = FALSE
    /\ UNCHANGED lookupVars
    /\ UNCHANGED <<dataVars, sessionVars, after_queue, workerVars, historyVars>>

Next ==
    \/ StartSniffing
    \/ StopSniffing
    \/ \E k \in PacketKinds : WorkerCapture(k)
    \/ \E p \in posting : WorkerAfter(p)
    \/ WorkerStopFilter
    \/ WorkerRaise
    \/ ProcessQueued
    \/ \E k \in Addresses \X Addresses : SelectConversation(k)
    \/ ClearData
    \/ UploadPcap
    \/ \E k \in PacketKinds : ReplayStep(k)
    \/ ReplayDone

Spec == Init /\ [][Next]_vars

\* ------------------------------------------------ get_ip_info, _fetch_ip_info
\* The dotted-decimal text of an address, as a sequence of characters.
Digits == <<"0", "1", "2", "3", "4", "5", "6", "7", "8", "9">>

RECURSIVE Decimal(_)
Decimal(n) ==
    IF n < 10 THEN <<Digits[n + 1]>>
    ELSE Decimal(n \div 10) \o <<Digits[(n % 10) + 1]>>

IPString(o) ==
    Decimal(o[1]) \o <<".">> \o Decimal(o[2]) \o <<".">> \o
    Decimal(o[3]) \o <<".">> \o Decimal(o[4])

\* str.startswith
StartsWith(s, prefix) ==
    /\ Len(s) >= Len(prefix)
    /\ SubSeq(s, 1, Len(prefix)) = prefix

\* ('10.', '192.168.', '172.16.', '127.0.0.1')
PrivatePrefixes ==
    { <<"1", "0", ".">>,
      <<"1", "9", "2", ".", "1", "6", "8", ".">>,
      <<"1", "7", "2", ".", "1", "6", ".">>,
      <<"1", "2", "7", ".", "0", ".", "0", ".", "1">> }

\* ip.startswith((...)) with a tuple: any of the prefixes
IsPrivate(ip) == \E prefix \in PrivatePrefixes : StartsWith(ip, prefix)

\* The addresses a lookup is asked for, as octets.
LookupAddresses ==
    {<<a, b, c, d>> : a \in {8, 10, 100, 127, 172, 192},
                      b \in {0, 16, 20, 31, 168},
                      c \in {0, 1},
                      d \in {1, 2, 10}}

\* What ip-api.com answers, or the request fails.
Replies == {"success", "fail", "RequestException"}

InfoPrivate(ip) == [ip |-> ip, status |-> "Private/Local Address"]
InfoOf(ip, reply) ==
    IF reply = "success" THEN [ip |-> ip, status |-> "Country"]
    ELSE IF reply = "fail" THEN [ip |-> ip, status |-> "Failed"]
    ELSE [ip |-> ip, status |-> "Error"]

\* get_ip_info(ip, target_textbox): shows "Looking up" and starts the thread.
GetIpInfo(ip) ==
    /\ fetching = None
    /\ ip_textbox' = [ip |-> ip, status |-> "Looking up"]
    /\ fetching' = ip
    /\ requested' = None
    /\ UNCHANGED <<dataVars, sessionVars, after_queue, workerVars, uploading,
                   historyVars>>

\* _fetch_ip_info(ip, target_textbox) and the textbox update it posts.
FetchIpInfo(reply) ==
    /\ fetching # None
    /\ IF IsPrivate(fetching)
         THEN /\ ip_textbox' = InfoPrivate(fetching)
              /\ requested' = None
         ELSE /\ ip_textbox' = InfoOf(fetching, reply)
              /\ requested' = fetching
    /\ fetching' = None
    /\ UNCHANGED <<dataVars, sessionVars, after_queue, workerVars, uploading,
                   historyVars>>

NextLookup ==
    \/ \E o \in LookupAddresses : GetIpInfo(IPString(o))
    \/ \E reply \in Replies : FetchIpInfo(reply)

SpecLookup == Init /\ [][NextLookup]_vars

\* The capture threads run whenever they can take a step of their own; the
\* arrival of a packet is not theirs to decide.
FairSpec ==
    /\ Spec
    /\ WF_vars(WorkerStopFilter)
    /\ WF_vars(\E p \in posting : WorkerAfter(p))


\* ============================================================== claims
\* The unordered pair of a conversation key, the key of a packet, and the
\* packets shown by the rows of the table.
KeyPair(k) == {k[1], k[2]}
KeyOf(p) == ConversationKey(p.src, p.dst)
TreePackets == [i \in DOMAIN packet_tree |-> packet_tree[i].pkt]
StoreKeys == DOMAIN conversations

\* ------------------------------------------------------------------ C1
\* C1: after any sequence of operations the FlowKeys of the conversation
\* store, taken as unordered pairs, are exactly the edges of the graph.
C1_StoreMatchesGraph ==
    {KeyPair(k) : k \in StoreKeys} = graph.edges

\* ------------------------------------------------------------------ C2
\* C2: in every state a reader can observe, each conversation's count
\* equals the length of its packets sequence.
C2_CountIsLength ==
    \A k \in StoreKeys :
        conversations[k].count = Len(conversations[k].packets)

\* A conversation that has recorded two packets, shown in a filtered view.
C2_Witness ==
    \E k \in StoreKeys :
        /\ Len(conversations[k].packets) = 2
        /\ selected_conversation = k

\* ------------------------------------------------------------------ C3
\* C3: packets are retained in the order in which they were handed to
\* packet_callback: in the global log, and within each conversation, a packet
\* handed over earlier (smaller identity) precedes one handed over later.
InHandOffOrder(ps) ==
    \A i, j \in DOMAIN ps : i < j => ps[i].id < ps[j].id

C3_IngestionOrder ==
    /\ InHandOffOrder(packets)
    /\ \A k \in StoreKeys : InHandOffOrder(conversations[k].packets)

\* ------------------------------------------------------------------ C4
\* C4: the k-th accepted packet carries the number k whenever it is
\* presented: every row of the table shows, as its number, the position of
\* its packet in the global log.
C4_RowNumberIsSequenceNumber ==
    \A i \in DOMAIN packet_tree :
        \E n \in DOMAIN packets :
            /\ packets[n] = packet_tree[i].pkt
            /\ packet_tree[i].no = n

\* ------------------------------------------------------------------ C5
\* C5: handing a packet without an IP layer to the pipeline, by a capture
\* thread or by the replay loop, leaves the conversation store, the global
\* log, the next sequence number, the graph, the displayed rows and the
\* queue of pending ingests unchanged.
HandOverNonIP == WorkerCapture(NonIP) \/ ReplayStep(NonIP)

C5_NonIPChangesNothing ==
    [][HandOverNonIP =>
         UNCHANGED <<conversations, packets, nextId, graph, packet_tree,
                     after_queue, selected_conversation, conv_buttons>>]_vars

\* A packet without an IP layer has been handed over while the store, the
\* log, the graph and the queue all held data.
C5_Witness ==
    /\ dropped
    /\ packets # <<>>
    /\ graph.edges # {}
    /\ after_queue # <<>>

\* ------------------------------------------------------------------ C6
\* C6: every accepted packet is stored in the global log and in its own
\* conversation whatever is selected, and is pushed to the view only when
\* nothing is selected or its key is the selected one; whenever a
\* conversation is selected the view holds exactly that conversation's stored
\* packets, in order.
ViewIsSelectedConversation ==
    selected_conversation # None =>
        /\ selected_conversation \in StoreKeys
        /\ TreePackets = conversations[selected_conversation].packets

StoreEverythingDisplayFiltered ==
    (after_queue # <<>> /\ after_queue' = Tail(after_queue)) =>
        LET p == Head(after_queue)
            k == KeyOf(p)
        IN /\ packets' = Append(packets, p)
           /\ k \in DOMAIN conversations'
           /\ conversations'[k].packets = Append(ConvGet(conversations, k).packets, p)
           /\ IF selected_conversation = None \/ selected_conversation = k
                THEN TreePackets' = Append(TreePackets, p)
                ELSE packet_tree' = packet_tree

C6_StoreAllDisplayFiltered ==
    /\ []ViewIsSelectedConversation
    /\ [][StoreEverythingDisplayFiltered]_vars

\* Conversation {1,2} was selected when the log held one packet (its row
\* carries number 1); a packet of conversation {1,3} arrived afterwards, is
\* stored, and is not in the view.
C6_Witness ==
    /\ selected_conversation = <<1, 2>>
    /\ Len(packets) = 2
    /\ KeyOf(packets[2]) = <<1, 3>>
    /\ <<1, 3>> \in StoreKeys
    /\ packet_tree = <<[no |-> 1, pkt |-> packets[1]]>>

\* ------------------------------------------------------------------ C7
\* The data left by feeding a packet sequence through the pipeline and
\* letting every queued ingest run: packet_callback adds the edge,
\* _process_packet records the packet.
RECURSIVE IngestAll(_, _, _)
IngestAll(d, seq, n) ==
    IF seq = <<>> THEN d
    ELSE LET p == Pkt(n, Head(seq)) IN
         IngestAll([store |-> ProcessStore(d.store, p),
                    log   |-> ProcessLog(d.log, p),
                    graph |-> CallbackGraph(d.graph, p)],
                   Tail(seq), IF p.ip THEN n + 1 ELSE n)

\* start_sniffing, the capture thread delivering seq, stop_sniffing
LiveFinal(seq) ==
    IngestAll([store |-> conversations, log |-> packets,
               graph |-> StartGraph(graph)], seq, nextId)

\* upload_pcap of a file holding seq
ReplayFinal(seq) ==
    IngestAll([store |-> ClearedStore, log |-> ClearedLog,
               graph |-> ClearedGraph], seq, nextId)

\* No capture thread is alive, nothing is queued, and both buttons are
\* enabled: a session can be started and a file can be replayed.
Quiet ==
    /\ ~uploading
    /\ ~is_sniffing
    /\ AliveWorkers = 0
    /\ after_queue = <<>>

FeedSequences == UNION {[1..n -> PacketKinds] : n \in 0..2}

\* C7: from the same starting state, replaying a packet sequence from a
\* file and capturing it live end in the same conversation store and the same
\* graph.
C7_ReplayEqualsLive ==
    Quiet =>
        \A seq \in FeedSequences :
            /\ LiveFinal(seq).store = ReplayFinal(seq).store
            /\ LiveFinal(seq).graph = ReplayFinal(seq).graph

\* ------------------------------------------------------------------ C8
\* C8: clear_data, from any state, leaves the store, the log and the graph
\* empty and the selection unset; the next packet ingested after it is
\* presented with sequence number 1.
ClearStep == ClearData \/ UploadPcap

C8_ClearResets ==
    [][ /\ ClearStep =>
             /\ conversations' = EmptyStore
             /\ packets' = <<>>
             /\ graph' = EmptyGraph
             /\ selected_conversation' = None
        /\ (packets = <<>> /\ packets' # <<>>) =>
             /\ Len(packets') = 1
             /\ packet_tree' = <<[no |-> 1, pkt |-> packets'[1]]>>
      ]_vars

\* The first packet handed over is nowhere any more (it was cleared), and
\* the second one was ingested after the clear and is shown with number 1.
C8_Witness ==
    /\ Len(packets) = 1
    /\ packets[1].id = 2
    /\ after_queue = <<>>
    /\ posting = {}
    /\ packet_tree = <<[no |-> 1, pkt |-> packets[1]]>>

\* ------------------------------------------------------------------ C9
\* The packets of `handed` exchanged between a and b, in either direction.
Between(a, b) == {p \in handed : {p.src, p.dst} = {a, b}}
Neighbours(a) == {b \in Addresses \ {a} : Between(a, b) # {}}

NotIdle == is_sniffing \/ AliveWorkers > 0

C10_StartRefusedWhenNotIdle ==
    [][(StartSniffing /\ NotIdle) =>
         UNCHANGED <<sniffing, posting, filtering, is_sniffing,
                     conversations, graph>>]_vars

\* ----------------------------------------------------------------- C11
\* C11: when stop_sniffing returns the session is marked non-Running, and
\* if a capture thread is still alive at that moment the caller is told so:
\* what stop_sniffing hands back then differs from what it hands back when
\* the thread has exited.
C11_StopReportsLiveWorker ==
    [][StopSniffing =>
         /\ is_sniffing' = FALSE
         /\ (AliveWorkers' > 0 => StopReturn(TRUE) # StopReturn(FALSE))]_vars

\* ----------------------------------------------------------------- C12
\* C12: stop_sniffing is idempotent and safe in every session state: applied
\* to a session it has already stopped, or to one that is not sniffing, it
\* changes nothing, and it never touches the store, the log or the graph.
StopIsIdempotent ==
    LET once == StopSession(Session) IN
      /\ StopSession(once) = once
      /\ ~is_sniffing => once = Session

C12_StopIdempotent ==
    /\ []StopIsIdempotent
    /\ [][StopSniffing =>
            /\ Session' = StopSession(Session)
            /\ UNCHANGED <<conversations, packets, graph, after_queue>>]_vars

\* The session has been stopped while a capture thread is still alive and
\* data is stored: a second stop_sniffing would find it so.
C12_Witness ==
    /\ ~is_sniffing
    /\ stop_button = "disabled"
    /\ AliveWorkers > 0
    /\ packets # <<>>

\* ----------------------------------------------------------------- C13
\* C13: when the packet source fails (sniff raises in the capture thread, or
\* the replay file cannot be read) the session is in or returns to Idle: it
\* is never left marked as sniffing with no live capture thread.
C13_NeverSniffingWithoutWorker ==
    is_sniffing => AliveWorkers > 0

\* ----------------------------------------------------------------- C15
\* C15: whenever _process_packet notifies the observer about a packet (row
\* append, conversation-list refresh), the packet is in its conversation's
\* packets and the edge between its source and destination is in the graph.
C15_NotifiedAfterBothUpdated ==
    [][ProcessQueued =>
         LET p == Head(after_queue) IN
           /\ KeyOf(p) \in DOMAIN conversations'
           /\ \E i \in DOMAIN conversations'[KeyOf(p)].packets :
                 conversations'[KeyOf(p)].packets[i] = p
           /\ KeyOf(p) \in conv_buttons'
           /\ {p.src, p.dst} \in graph'.edges]_vars

\* ----------------------------------------------------------------- C16
\* C16: at every moment at most one capture thread is alive.
C16_AtMostOneWorker ==
    AliveWorkers <= 1

\* ----------------------------------------------------------------- C19
\* The packets of a sequence that belong to conversation k, in order.
RECURSIVE OfKey(_, _)
OfKey(ps, k) ==
    IF ps = <<>> THEN <<>>
    ELSE IF KeyOf(Head(ps)) = k
           THEN <<Head(ps)>> \o OfKey(Tail(ps), k)
           ELSE OfKey(Tail(ps), k)

RECURSIVE SumOfCounts(_)
SumOfCounts(ks) ==
    IF ks = {} THEN 0
    ELSE LET k == CHOOSE x \in ks : TRUE
         IN conversations[k].count + SumOfCounts(ks \ {k})

\* C19: in every reachable state the counts of all conversations add up to
\* the length of the global log, and the log is the order-preserving merge of
\* the conversations: each conversation's packets are exactly the log's
\* packets of that key, in log order, and every logged packet's key is stored.
C19_LogIsMergeOfConversations ==
    /\ SumOfCounts(StoreKeys) = Len(packets)
    /\ \A k \in StoreKeys : conversations[k].packets = OfKey(packets, k)
    /\ \A i \in DOMAIN packets : KeyOf(packets[i]) \in StoreKeys

\* Two conversations, one packet each, merged in the log, while a packet
\* without an IP layer was dropped on the way.
C19_Witness ==
    /\ Len(packets) = 2
    /\ Cardinality(StoreKeys) = 2
    /\ dropped

\* ----------------------------------------------------------------- C20
\* C20: a packet handed to packet_callback before a clear_data never appears
\* in the log or in a conversation after that clear_data: everything stored
\* was handed over since the last clear.
C20_NoPacketSurvivesClear ==
    /\ \A i \in DOMAIN packets : packets[i] \in handed
    /\ \A k \in StoreKeys :
          \A i \in DOMAIN conversations[k].packets :
              conversations[k].packets[i] \in handed

\* ----------------------------------------------------------------- C14
\* The ranges 10.0.0.0/8, 172.16.0.0/12, 192.168.0.0/16 and 127.0.0.0/8.
InPrivateRange(o) ==
    \/ o[1] = 10
    \/ o[1] = 172 /\ o[2] \in 16..31
    \/ o[1] = 192 /\ o[2] = 168
    \/ o[1] = 127

\* C14: a finished lookup of an address inside the private or loopback
\* ranges shows the private-address result and has made no network call; a
\* network call is made only for an address outside those ranges.
C14_PrivateRangesShortCircuit ==
    \A o \in LookupAddresses :
        (fetching = None /\ ip_textbox # None /\ ip_textbox.ip = IPString(o))
          => /\ InPrivateRange(o) => /\ ip_textbox = InfoPrivate(IPString(o))
                                     /\ requested = None
             /\ requested # None => ~InPrivateRange(o)

\* ----------------------------------------------------------------- C17
\* C17: after stop_sniffing, the capture threads that are still alive
\* eventually exit (or the session is started again before they do), the
\* threads being scheduled fairly.
C17_StoppedWorkerExits ==
    (~is_sniffing /\ AliveWorkers > 0) ~> (AliveWorkers = 0 \/ is_sniffing)

\* ----------------------------------------------------------------- C18
FlowKeys == {ConversationKey(a, b) : a, b \in Addresses}

\* C18: select_conversation leaves the conversation store as it is, for
\* every key, stored or not.
C18_SelectKeepsStore ==
    \A k \in FlowKeys : SelectStore(conversations, k) = conversations

====
